---- MODULE Spec2Model ----
(***************************************************************************)
(* A model of the design-pattern snippets of this repository:              *)
(*   - Structural/Composite/main.py : FileSystemNode, File, Directory      *)
(*   - Behavioral/Strategy/main.py  : Strategy classes and Context         *)
(*   - Behavioral/Strategy/functional.py : function strategies and Context *)
(*                                                                         *)
(* Objects are identified by the names of the references that hold them.   *)
(* File sizes are integral floats (as in the client demo: 4500.0, 850.0,   *)
(* 900.0), on which float addition is exact; they are modelled as integers *)
(* and printed with a trailing ".0".                                       *)
(***************************************************************************)
EXTENDS Integers, Sequences, FiniteSets, TLC

VARIABLES
    name,       \* FileSystemNode.name of every node
    size_mb,    \* File.size_mb of every File
    children,   \* Directory._children of every Directory
    last,       \* the call that was made last and what it returned or raised
    pc,         \* "idle", or "running" / "done" for a get_size_mb or display call
    stack,      \* the frames of the running call, innermost last
    visited,    \* the nodes whose method the running call has entered, in order
    result,     \* what the finished call returned or raised
    ctx_strategy,   \* Context._strategy (Strategy/main.py)
    fn_strategy,    \* Context.strategy (Strategy/functional.py)
    assigned        \* the strategy most recently assigned to each Context

vars == <<name, size_mb, children, last, pc, stack, visited, result,
          ctx_strategy, fn_strategy, assigned>>
trav == <<pc, stack, visited, result>>
strat == <<ctx_strategy, fn_strategy, assigned>>

----------------------------------------------------------------------------
(* Bounds of the model *)

\* Total number of child slots over all directories that add may fill.
MaxEdges == 3

\* The same, where the calls on File objects are interleaved.
MaxLeafEdges == 2

\* Depth of nested calls at which the interpreter raises RecursionError
\* (sys.getrecursionlimit(), scaled down; deeper than any acyclic nesting
\* of the modelled directories).
RecursionLimit == 6

\* display is called with indent 0 (the default) or MaxIndent.
MaxIndent == 1

\* The strategies are executed on integers in -MaxArg .. MaxArg.
MaxArg == 2

----------------------------------------------------------------------------
(* The objects *)

Dirs == {"media_root", "tv_dir", "season_1"}
Files == {"ep1", "ep2"}
Nodes == Dirs \cup Files

None == "None"
NoCall == [op |-> "init", self |-> None, arg |-> None, ret |-> None]

\* FileSystemNode.__init__ / Directory.__init__ / File.__init__
NodeNames ==
    [n \in Nodes |->
        CASE n = "media_root" -> "Media"
          [] n = "tv_dir"     -> "TV"
          [] n = "season_1"   -> "s1"
          [] n = "ep1"        -> "ep1.mkv"
          [] n = "ep2"        -> "ep2.mkv"]

\* The sizes File objects are created with; the second choice has a negative and a zero size.
SizeChoices ==
    { [f \in Files |-> IF f = "ep1" THEN 850 ELSE 900],
      [f \in Files |-> IF f = "ep1" THEN -5 ELSE 0] }

\* The strategy classes of main.py and the strategy functions of
\* functional.py
Strategies ==
    {"ConcreteStrategyAdd", "ConcreteStrategySubtract", "ConcreteStrategyMultiply"}
Funcs == {"add", "subtract", "multiply"}

\* The nodes as constructed, no call made yet
InitNodes ==
    /\ name = NodeNames
    /\ children = [d \in Dirs |-> <<>>]
    /\ last = NoCall
    /\ pc = "idle"
    /\ stack = <<>>
    /\ visited = <<>>
    /\ result = None

\* Context() of main.py and Context(multiply) of functional.py
InitContexts ==
    /\ ctx_strategy = None
    /\ fn_strategy = "multiply"
    /\ assigned = [ctx |-> None, fn |-> "multiply"]

Init ==
    /\ InitNodes
    /\ size_mb \in SizeChoices
    /\ InitContexts

----------------------------------------------------------------------------
(* Helpers *)

RECURSIVE SeqSum(_)
SeqSum(s) == IF s = <<>> THEN 0 ELSE Head(s) + SeqSum(Tail(s))

RECURSIVE SetSum(_, _)
SetSum(f, S) ==
    IF S = {} THEN 0
    ELSE LET x == CHOOSE y \in S : TRUE IN f[x] + SetSum(f, S \ {x})

\* Number of child slots in use over all directories.
TotalEdges == SetSum([d \in Dirs |-> Len(children[d])], Dirs)

\* Indices get_child is called with: negative, in range and past the end.
Indices == -1 .. MaxEdges

Call(op, self, arg, ret) == [op |-> op, self |-> self, arg |-> arg, ret |-> ret]

----------------------------------------------------------------------------
(* Python's list operations, as Directory uses them *)

\* A slip: an element already in the list is not appended again.
ListAppend_Unique(s, x) ==
    IF \E i \in 1..Len(s) : s[i] = x THEN s ELSE Append(s, x)

\* list.append(x)
ListAppend(s, x) == Append(s, x)

\* A slip: every element equal to x is deleted.
ListRemove_All(s, x) ==
    LET keep == SelectSeq(s, LAMBDA y : y /= x)
    IN  [ok |-> keep /= s, val |-> keep]

\* A slip: the last element equal to x is deleted, not the first.
ListRemove_Last(s, x) ==
    IF \E i \in 1..Len(s) : s[i] = x
    THEN LET i == CHOOSE i \in 1..Len(s) :
                     s[i] = x /\ \A j \in (i + 1)..Len(s) : s[j] /= x
         IN  [ok |-> TRUE, val |-> SubSeq(s, 1, i - 1) \o SubSeq(s, i + 1, Len(s))]
    ELSE [ok |-> FALSE, val |-> <<>>]

\* list.remove(x): scans from the front, deletes the first element equal to
\* x, raises ValueError when there is none.  The nodes define no __eq__, so
\* equality is identity.
RECURSIVE ListRemove(_, _)
ListRemove(s, x) ==
    IF s = <<>> THEN [ok |-> FALSE, val |-> <<>>]
    ELSE IF Head(s) = x THEN [ok |-> TRUE, val |-> Tail(s)]
    ELSE LET r == ListRemove(Tail(s), x)
         IN  [ok |-> r.ok, val |-> <<Head(s)>> \o r.val]

----------------------------------------------------------------------------
(* FileSystemNode (the defaults File inherits) and Directory *)

\* A slip: the default add signals that a leaf cannot take children.
FileSystemNode_add_Raises(self, component) ==
    /\ UNCHANGED children
    /\ last' = Call("add", self, component, "NotImplementedError")

\* FileSystemNode.add: pass
FileSystemNode_add(self, component) ==
    /\ UNCHANGED children
    /\ last' = Call("add", self, component, None)

\* FileSystemNode.remove: pass
FileSystemNode_remove(self, component) ==
    /\ UNCHANGED children
    /\ last' = Call("remove", self, component, None)

\* FileSystemNode.get_child: return None
FileSystemNode_get_child(self, index) == None

\* Directory.add
Directory_add(self, component) ==
    /\ children' = [children EXCEPT ![self] = ListAppend(@, component)]
    /\ last' = Call("add", self, component, None)

\* Directory.remove; the ValueError of list.remove propagates to the caller
Directory_remove(self, component) ==
    LET r == ListRemove(children[self], component)
    IN  IF r.ok
        THEN /\ children' = [children EXCEPT ![self] = r.val]
             /\ last' = Call("remove", self, component, None)
        ELSE /\ UNCHANGED children
             /\ last' = Call("remove", self, component, "ValueError")

\* A slip: the lower bound is not tested, and a negative index counts from
\* the end of the list.
Directory_get_child_NoLowerBound(ch, self, index) ==
    IF index < Len(ch[self])
    THEN IF index >= 0 THEN ch[self][index + 1]
         ELSE IF Len(ch[self]) + index >= 0
              THEN ch[self][Len(ch[self]) + index + 1]
              ELSE "IndexError"
    ELSE None

\* Directory.get_child
Directory_get_child(ch, self, index) ==
    IF 0 <= index /\ index < Len(ch[self])
    THEN ch[self][index + 1]
    ELSE None

\* get_child with the method resolved by the class of self; it reads the
\* state and changes nothing, so it is an operator on the current state
get_child(self, index) ==
    IF self \in Dirs THEN Directory_get_child(children, self, index)
    ELSE FileSystemNode_get_child(self, index)

\* The value a call returns, or the RecursionError it raises.
Ok(v) == [ok |-> TRUE, val |-> v]
Raised(v) == [ok |-> FALSE, val |-> v]

\* A node is a File exactly when it has a size_mb.
IsFile(sz, self) == self \in DOMAIN sz

\* File.get_size_mb
File_get_size_mb(sz, self) == sz[self]

\* Directory.get_size_mb and File.get_size_mb, with depth the number of
\* frames already on the call stack; ch and sz are the _children and size_mb
\* fields.  An exception raised by a child's call propagates.
RECURSIVE SizeOf(_, _, _, _), SizeLoop(_, _, _, _, _)
SizeOf(ch, sz, self, depth) ==
    IF depth >= RecursionLimit THEN Raised(0)
    ELSE IF IsFile(sz, self) THEN Ok(File_get_size_mb(sz, self))
    ELSE SizeLoop(ch, sz, ch[self], 0, depth + 1)

\* A slip: return inside the loop, after the first child.
SizeLoop_FirstOnly(ch, sz, rest, total, depth) ==
    IF rest = <<>> THEN Ok(total)
    ELSE LET r == SizeOf(ch, sz, Head(rest), depth)
         IN  IF r.ok THEN Ok(total + r.val) ELSE r

\* A slip: total = child.get_size_mb() instead of total += ...
SizeLoop_Overwrite(ch, sz, rest, total, depth) ==
    IF rest = <<>> THEN Ok(total)
    ELSE LET r == SizeOf(ch, sz, Head(rest), depth)
         IN  IF r.ok THEN SizeLoop(ch, sz, Tail(rest), r.val, depth)
             ELSE r

\* for child in self._children: total += child.get_size_mb()
SizeLoop(ch, sz, rest, total, depth) ==
    IF rest = <<>> THEN Ok(total)
    ELSE LET r == SizeOf(ch, sz, Head(rest), depth)
         IN  IF r.ok THEN SizeLoop(ch, sz, Tail(rest), total + r.val, depth)
             ELSE r

get_size_mb(self) == SizeOf(children, size_mb, self, 0)

\* A slip: one space per level instead of two.
RECURSIVE Indent_OneSpace(_)
Indent_OneSpace(indent) ==
    IF indent <= 0 THEN <<>> ELSE <<" ">> \o Indent_OneSpace(indent - 1)

\* '  ' * indent: the empty string when indent <= 0
RECURSIVE Indent(_)
Indent(indent) == IF indent <= 0 THEN <<>> ELSE <<"  ">> \o Indent(indent - 1)

\* str() of an integral float
FloatStr(x) == ToString(x) \o ".0"

\* File.display: the string as the sequence of its pieces
File_display(sz, nm, self, indent) ==
    Indent(indent) \o <<"- ", nm[self], " (", FloatStr(sz[self]), " MB)\n">>

\* The first line of Directory.display, given the total
Directory_line(nm, self, indent, total) ==
    Indent(indent) \o <<"+ [", nm[self], "] (Total: ", FloatStr(total), " MB)\n">>

----------------------------------------------------------------------------
(* The calls a client can make *)

DirAdd ==
    \E self \in Dirs, component \in Nodes :
        /\ pc = "idle"
        /\ TotalEdges < MaxEdges
        /\ Directory_add(self, component)
        /\ UNCHANGED <<name, size_mb, trav, strat>>

FileAdd ==
    \E self \in Files, component \in Nodes :
        /\ FileSystemNode_add(self, component)
        /\ UNCHANGED <<name, size_mb, trav, strat>>

DirRemove ==
    \E self \in Dirs, component \in Nodes :
        /\ Directory_remove(self, component)
        /\ UNCHANGED <<name, size_mb, trav, strat>>

FileRemove ==
    \E self \in Files, component \in Nodes :
        /\ FileSystemNode_remove(self, component)
        /\ UNCHANGED <<name, size_mb, trav, strat>>

\* Directory.add, while few child slots are in use
DirAddFew ==
    \E self \in Dirs, component \in Nodes :
        /\ TotalEdges < MaxLeafEdges
        /\ Directory_add(self, component)
        /\ UNCHANGED <<name, size_mb, trav, strat>>

----------------------------------------------------------------------------
(* get_size_mb and display, one call or return at a time *)

\* The frame of a call of get_size_mb on self: the children the loop has
\* still to visit and the local total (for a File: the value it returns).
SizeFrame(self) ==
    IF IsFile(size_mb, self)
    THEN [self |-> self, rest |-> <<>>, indent |-> 0,
          acc |-> File_get_size_mb(size_mb, self)]
    ELSE [self |-> self, rest |-> children[self], indent |-> 0, acc |-> 0]

\* The frame of a call of display on self: the local result holds the node's own line.  A Directory calls
\* self.get_size_mb() for that line, one frame deeper; total is what that
\* call returned.
DisplayFrame(self, indent, total) ==
    IF IsFile(size_mb, self)
    THEN [self |-> self, rest |-> <<>>, indent |-> indent,
          acc |-> File_display(size_mb, name, self, indent)]
    ELSE [self |-> self, rest |-> children[self], indent |-> indent,
          acc |-> Directory_line(name, self, indent, total)]

\* Entering op on self with depth frames on the stack raises RecursionError
\* when the stack is full, or when display's self.get_size_mb() raises it.
EnterRaises(op, self, depth) ==
    \/ depth >= RecursionLimit
    \/ /\ op = "display"
       /\ ~IsFile(size_mb, self)
       /\ ~SizeOf(children, size_mb, self, depth + 1).ok

Frame(op, self, indent, depth) ==
    IF op = "get_size_mb" THEN SizeFrame(self)
    ELSE DisplayFrame(self, indent,
            IF IsFile(size_mb, self) THEN 0
            ELSE SizeOf(children, size_mb, self, depth + 1).val)

\* An exception unwinds the whole stack and reaches the client.
Raise ==
    /\ pc' = "done"
    /\ stack' = <<>>
    /\ result' = Raised("RecursionError")

\* The client calls root.get_size_mb() or root.display(indent).
TravCall ==
    \E op \in {"get_size_mb", "display"}, root \in Nodes, indent \in {0, MaxIndent} :
        /\ pc = "idle"
        /\ op = "get_size_mb" => indent = 0
        /\ last' = Call(op, root, indent, None)
        /\ visited' = <<root>>
        /\ IF EnterRaises(op, root, 0)
           THEN Raise
           ELSE /\ pc' = "running"
                /\ stack' = <<Frame(op, root, indent, 0)>>
                /\ UNCHANGED result
        /\ UNCHANGED <<name, size_mb, children, strat>>

\* A slip: the loop calls the method on self instead of on the child.
TravDescend_OnSelf ==
    /\ pc = "running"
    /\ LET top == stack[Len(stack)]
       IN  /\ top.rest /= <<>>
           /\ visited' = Append(visited, top.self)
           /\ IF EnterRaises(last.op, top.self, Len(stack))
              THEN Raise
              ELSE /\ stack' = Append(
                         [stack EXCEPT ![Len(stack)].rest = Tail(top.rest)],
                         Frame(last.op, top.self, top.indent + 1, Len(stack)))
                   /\ UNCHANGED <<pc, result>>
    /\ UNCHANGED <<name, size_mb, children, last, strat>>

\* The loop of the innermost frame calls the method of its next child.
TravDescend ==
    /\ pc = "running"
    /\ LET top == stack[Len(stack)]
           child == Head(top.rest)
       IN  /\ top.rest /= <<>>
           /\ visited' = Append(visited, child)
           /\ IF EnterRaises(last.op, child, Len(stack))
              THEN Raise
              ELSE /\ stack' = Append(
                         [stack EXCEPT ![Len(stack)].rest = Tail(top.rest)],
                         Frame(last.op, child, top.indent + 1, Len(stack)))
                   /\ UNCHANGED <<pc, result>>
    /\ UNCHANGED <<name, size_mb, children, last, strat>>

\* The innermost frame has visited all its children and returns; the caller
\* adds the value to its total (total += ..., result += ...).
TravReturn ==
    /\ pc = "running"
    /\ LET n == Len(stack)
           top == stack[n]
       IN  /\ top.rest = <<>>
           /\ IF n = 1
              THEN /\ pc' = "done"
                   /\ stack' = <<>>
                   /\ result' = Ok(top.acc)
              ELSE /\ stack' = [SubSeq(stack, 1, n - 1) EXCEPT ![n - 1].acc =
                                   IF last.op = "get_size_mb"
                                   THEN @ + top.acc ELSE @ \o top.acc]
                   /\ UNCHANGED <<pc, result>>
    /\ UNCHANGED <<name, size_mb, children, last, visited, strat>>

----------------------------------------------------------------------------
(* Strategy: the strategies and the two Context classes *)

ConcreteStrategyAdd_execute(a, b) == a + b
ConcreteStrategySubtract_execute(a, b) == a - b
ConcreteStrategyMultiply_execute(a, b) == a * b

\* strategy.execute(a, b) with the method resolved by the class
Strategy_execute(strategy, a, b) ==
    CASE strategy = "ConcreteStrategyAdd" -> ConcreteStrategyAdd_execute(a, b)
      [] strategy = "ConcreteStrategySubtract" ->
             ConcreteStrategySubtract_execute(a, b)
      [] strategy = "ConcreteStrategyMultiply" ->
             ConcreteStrategyMultiply_execute(a, b)

\* A slip: the strategy is used without the test for None.
Context_execute_strategy_NoGuard(strategy, a, b) ==
    IF strategy /= None THEN Ok(Strategy_execute(strategy, a, b))
    ELSE Raised("AttributeError")

\* Context.execute_strategy of main.py: a strategy object is truthy, None is
\* not, and then 0 is returned after printing an error
Context_execute_strategy(strategy, a, b) ==
    IF strategy /= None THEN Ok(Strategy_execute(strategy, a, b)) ELSE Ok(0)

\* add, subtract, multiply of functional.py
Func_apply(f, a, b) ==
    CASE f = "add" -> a + b
      [] f = "subtract" -> a - b
      [] f = "multiply" -> a * b

\* Context.execute of functional.py
Context_execute(strategy, a, b) == Ok(Func_apply(strategy, a, b))

Args == (0 - MaxArg) .. MaxArg

\* context.strategy = ... (the setter of main.py); None can be assigned too
SetStrategy ==
    \E strategy \in Strategies \cup {None} :
        /\ ctx_strategy' = strategy
        /\ assigned' = [assigned EXCEPT !.ctx = strategy]
        /\ last' = Call("strategy", "Context", strategy, None)
        /\ UNCHANGED <<name, size_mb, children, trav, fn_strategy>>

ExecuteStrategy ==
    \E a \in Args, b \in Args :
        /\ last' = Call("execute_strategy", "Context", <<a, b>>,
                        Context_execute_strategy(ctx_strategy, a, b))
        /\ UNCHANGED <<name, size_mb, children, trav, strat>>

\* context.strategy = ... (functional.py)
FnSetStrategy ==
    \E f \in Funcs :
        /\ fn_strategy' = f
        /\ assigned' = [assigned EXCEPT !.fn = f]
        /\ last' = Call("strategy", "functional.Context", f, None)
        /\ UNCHANGED <<name, size_mb, children, trav, ctx_strategy>>

FnExecute ==
    \E a \in Args, b \in Args :
        /\ last' = Call("execute", "functional.Context", <<a, b>>,
                        Context_execute(fn_strategy, a, b))
        /\ UNCHANGED <<name, size_mb, children, trav, strat>>

\* The calls on Directory objects
Next == DirAdd \/ DirRemove

Spec == Init /\ [][Next]_vars

\* The calls on File objects, between calls that fill directories
NextLeaf == DirAddFew \/ FileAdd \/ FileRemove

SpecLeaf == Init /\ [][NextLeaf]_vars

\* The two Contexts; functional.py's is constructed with any of the functions
InitStrategy ==
    /\ InitNodes
    /\ size_mb = [f \in Files |-> IF f = "ep1" THEN 850 ELSE 900]
    /\ ctx_strategy = None
    /\ fn_strategy \in Funcs
    /\ assigned = [ctx |-> None, fn |-> fn_strategy]

NextStrategy == SetStrategy \/ ExecuteStrategy \/ FnSetStrategy \/ FnExecute

SpecStrategy == InitStrategy /\ [][NextStrategy]_vars

\* One get_size_mb or display call on a structure that add calls have built.
\* The code is synchronous: a call that has started keeps running.
NextTraverse == DirAdd \/ TravCall \/ TravDescend \/ TravReturn

\* The files have the sizes of the client demo's episodes.
InitTraverse == Init /\ size_mb = [f \in Files |-> IF f = "ep1" THEN 850 ELSE 900]

SpecTraverse ==
    InitTraverse /\ [][NextTraverse]_vars /\ WF_vars(TravDescend \/ TravReturn)

----------------------------------------------------------------------------
(* Notions of the properties, defined on the structure itself and not by  *)
(* the traversals                                                         *)

\* The nodes that occur in the child sequence of n.
ChildSet(ch, n) ==
    IF n \in DOMAIN ch THEN {ch[n][i] : i \in 1..Len(ch[n])} ELSE {}

RECURSIVE Closure(_, _)
Closure(ch, S) ==
    LET T == S \cup UNION {ChildSet(ch, n) : n \in S}
    IN  IF T = S THEN S ELSE Closure(ch, T)

\* The nodes below n: its children, their children, ...
Descendants(ch, n) == Closure(ch, ChildSet(ch, n))

\* n and everything below it.
Under(ch, n) == {n} \cup Descendants(ch, n)

\* No directory at or below root has been added to itself or to one of its
\* own descendants.
Acyclic(ch, root) == \A d \in Under(ch, root) : d \notin Descendants(ch, d)

\* How often n occurs in the child sequence of d.
Occurrences(ch, d, n) ==
    IF d \in DOMAIN ch
    THEN Cardinality({i \in 1..Len(ch[d]) : ch[d][i] = n})
    ELSE 0

\* root is the root of a tree: no cycle, and every node below it is a child
\* exactly once.
IsTree(ch, root) ==
    /\ Acyclic(ch, root)
    /\ \A n \in Descendants(ch, root) :
          SetSum([d \in Under(ch, root) |-> Occurrences(ch, d, n)],
                 Under(ch, root)) = 1

\* The File leaves at or below root.
LeavesUnder(ch, sz, root) == {n \in Under(ch, root) : IsFile(sz, n)}

\* The sum of the sizes of the File leaves at or below root.
LeafSum(ch, sz, root) == SetSum(sz, LeavesUnder(ch, sz, root))

\* The client demo's tree: Media{Movies{4500}, TV{s1{850, 900}}}
DemoChildren ==
    [d \in {"media_root", "movies_dir", "tv_dir", "season_1"} |->
        CASE d = "media_root" -> <<"movies_dir", "tv_dir">>
          [] d = "movies_dir" -> <<"great_movie">>
          [] d = "tv_dir"     -> <<"season_1">>
          [] d = "season_1"   -> <<"ep1", "ep2">>]

DemoSizes ==
    [f \in {"great_movie", "ep1", "ep2"} |->
        CASE f = "great_movie" -> 4500
          [] f = "ep1"         -> 850
          [] f = "ep2"         -> 900]

DemoNames ==
    [n \in DOMAIN DemoChildren \cup DOMAIN DemoSizes |->
        CASE n = "media_root"  -> "Media"
          [] n = "movies_dir"  -> "Movies"
          [] n = "tv_dir"      -> "TV"
          [] n = "season_1"    -> "s1"
          [] n = "great_movie" -> "GreatMovie.mkv"
          [] n = "ep1"         -> "ep1.mkv"
          [] n = "ep2"         -> "ep2.mkv"]

Max(S) == CHOOSE x \in S : \A y \in S : y <= x

\* The node reached from n by going down through the child positions
\* (from 1) that way lists, or None when way leaves the structure.
RECURSIVE NodeAt(_, _, _)
NodeAt(ch, n, way) ==
    IF way = <<>> THEN n
    ELSE IF n \in DOMAIN ch /\ Head(way) <= Len(ch[n])
         THEN NodeAt(ch, ch[n][Head(way)], Tail(way))
         ELSE None

\* The ways down from root: one for every occurrence of a node as a child,
\* grandchild, ... of root.  In a structure without a cycle a way passes
\* each directory at most once.
Ways(ch, root) ==
    LET width == Max({Len(ch[d]) : d \in DOMAIN ch})
    IN  {way \in UNION {[1..k -> 1..width] : k \in 1..Cardinality(DOMAIN ch)} :
            NodeAt(ch, root, way) /= None}

\* The number of child occurrences below root.
ChildOccurrences(ch, root) == Cardinality(Ways(ch, root))

\* The depth of the structure below root: the most edges on a way down.
Depth(ch, root) == Max({0} \cup {Len(way) : way \in Ways(ch, root)})

\* Depth-first pre-order: the node at its level, then each child's pre-order
\* one level deeper, in child order (for a structure without a cycle).
RECURSIVE PreOrder(_, _, _, _), PreOrderAll(_, _, _, _)
PreOrder(ch, n, level, fuel) ==
    IF fuel = 0 THEN <<>>
    ELSE <<[node |-> n, level |-> level]>>
            \o PreOrderAll(ch, IF n \in DOMAIN ch THEN ch[n] ELSE <<>>,
                           level + 1, fuel - 1)

PreOrderAll(ch, kids, level, fuel) ==
    IF kids = <<>> THEN <<>>
    ELSE PreOrder(ch, Head(kids), level, fuel)
            \o PreOrderAll(ch, Tail(kids), level, fuel)

\* The lines of a text given by its pieces: a line ends with the piece that
\* ends in a line break.
RECURSIVE SplitLines(_)
SplitLines(text) ==
    IF text = <<>> THEN <<>>
    ELSE LET e == CHOOSE i \in 1..Len(text) :
                     /\ text[i] = " MB)\n"
                     /\ \A j \in 1..(i - 1) : text[j] /= " MB)\n"
         IN  <<SubSeq(text, 1, e)>> \o SplitLines(SubSeq(text, e + 1, Len(text)))

\* The indentation level of a line: its leading two-space pieces.
RECURSIVE Level(_)
Level(line) ==
    IF line /= <<>> /\ Head(line) = "  " THEN 1 + Level(Tail(line)) ELSE 0

\* The line expected for node n at a level.
LineOf(n, level) ==
    [i \in 1..level |-> "  "] \o
        (IF n \in Files
         THEN <<"- ", name[n], " (", FloatStr(size_mb[n]), " MB)\n">>
         ELSE <<"+ [", name[n], "] (Total: ",
                FloatStr(get_size_mb(n).val), " MB)\n">>)

\* The step just taken was the call op on self with argument arg.
Did(op, self, arg) ==
    /\ last'.op = op
    /\ last'.self = self
    /\ last'.arg = arg

----------------------------------------------------------------------------
(* Properties *)

\* C1: on every Directory tree whose File leaves all have non-negative
\* sizes, get_size_mb() of the root returns the sum of the sizes of all File
\* leaves under the root, whatever the nesting depth; on the demo tree
\* Media{Movies{4500}, TV{s1{850, 900}}} that is 6250 for the root and 1750
\* for TV, and the child of the root at index 1 is TV.
C1_SizeIsLeafSum ==
    /\ \A root \in Dirs :
          (/\ IsTree(children, root)
           /\ \A f \in LeavesUnder(children, size_mb, root) : size_mb[f] >= 0)
          => get_size_mb(root) = Ok(LeafSum(children, size_mb, root))
    /\ SizeOf(DemoChildren, DemoSizes, "media_root", 0) = Ok(6250)
    /\ SizeOf(DemoChildren, DemoSizes, "tv_dir", 0) = Ok(1750)
    /\ DemoNames[Directory_get_child(DemoChildren, "media_root", 1)] = "TV"

\* A tree three directories deep with a leaf, built by add.
C1_Witness ==
    /\ last.op = "add"
    /\ IsTree(children, "media_root")
    /\ \E d1, d2 \in Dirs \ {"media_root"}, f \in Files :
          /\ d1 \in ChildSet(children, "media_root")
          /\ d2 \in ChildSet(children, d1)
          /\ f \in ChildSet(children, d2)
          /\ size_mb[f] > 0

\* C2: after any sequence of add and remove calls, get_child(i) on a
\* Directory returns the child at position i of the child sequence for
\* 0 <= i < number of children and None for every other integer i, and on a
\* File it returns None for every i.
C2_GetChild ==
    /\ \A d \in Dirs, i \in Indices :
          get_child(d, i) =
              IF i \in 0 .. (Len(children[d]) - 1)
              THEN children[d][i + 1] ELSE None
    /\ \A f \in Files, i \in Indices : get_child(f, i) = None

\* A directory that holds two different children after an add and a remove.
C2_Witness ==
    /\ last.op = "remove"
    /\ last.ret = None
    /\ \E d \in Dirs :
          /\ Len(children[d]) = 2
          /\ get_child(d, 0) /= get_child(d, 1)
          /\ get_child(d, 1) /= None

\* C6: on every structure without a cycle that add and remove calls build,
\* get_size_mb() of every Directory is the sum of get_size_mb() of its
\* current children, is non-negative when all File sizes are non-negative,
\* and is 0 for an empty Directory.
C6_SizeIsSumOfChildren ==
    \A d \in Dirs :
        Acyclic(children, d) =>
            LET r == get_size_mb(d)
            IN  /\ r.ok
                /\ r.val = SeqSum([i \in 1..Len(children[d]) |->
                                      get_size_mb(children[d][i]).val])
                /\ (\A f \in Files : size_mb[f] >= 0) => r.val >= 0
                /\ children[d] = <<>> => r.val = 0

\* A remove has taken a file of non-zero size out of a directory that
\* still holds a directory of non-zero size.
C6_Witness ==
    /\ last.op = "remove"
    /\ last.ret = None
    /\ last.self \in Dirs
    /\ last.arg \in Files
    /\ size_mb[last.arg] /= 0
    /\ \E e \in Dirs :
          /\ children[last.self] = <<e>>
          /\ Acyclic(children, last.self)
          /\ get_size_mb(e).val /= 0

\* The position (from 1) of the first occurrence of c in s.
FirstAt(s, c) ==
    CHOOSE i \in 1..Len(s) : s[i] = c /\ \A j \in 1..(i - 1) : s[j] /= c

\* s without its element at position i.
Without(s, i) == SubSeq(s, 1, i - 1) \o SubSeq(s, i + 1, Len(s))

\* C3 as stated: for every child c at position p of a Directory d (also when
\* c was added more than once), after d.remove(c) the call d.get_child(p)
\* returns None or the child that followed c, and never c itself.
C3_NeverTheRemovedChild ==
    [][\A d \in Dirs, c \in Nodes :
          (Did("remove", d, c) /\ last'.ret = None) =>
              \A p \in 0 .. (Len(children[d]) - 1) :
                  children[d][p + 1] = c =>
                      /\ get_child(d, p)' /= c
                      /\ \/ get_child(d, p)' = None
                         \/ /\ p + 2 <= Len(children[d])
                            /\ get_child(d, p)' = children[d][p + 2]]_vars

\* C3 as amended: after d.remove(c), for every position p that held c,
\* d.get_child(p) returns the child that followed position p, or None when p
\* was the last position; it returns c exactly when c itself followed at
\* position p + 1.
C3_ShiftedChild ==
    [][\A d \in Dirs, c \in Nodes :
          (Did("remove", d, c) /\ last'.ret = None) =>
              \A p \in 0 .. (Len(children[d]) - 1) :
                  children[d][p + 1] = c =>
                      /\ get_child(d, p)' =
                            IF p + 2 <= Len(children[d])
                            THEN children[d][p + 2] ELSE None
                      /\ get_child(d, p)' = c <=>
                            (p + 2 <= Len(children[d])
                                /\ children[d][p + 2] = c)]_vars

\* After a remove, the directory still holds the removed node (it had been
\* added twice) in front of another child.
C3_Witness ==
    /\ last.op = "remove"
    /\ last.ret = None
    /\ last.self \in Dirs
    /\ Len(children[last.self]) = 2
    /\ children[last.self][1] = last.arg
    /\ children[last.self][2] /= last.arg

\* C4: Directory.remove(c) removes exactly the first occurrence of c and
\* keeps all other children in their order; when c is not among the
\* children the call does nothing silently or signals a not-found error
\* (ValueError), and the child sequence is unchanged; the child sequences
\* of the other directories are never touched.
C4_RemoveFirstOccurrence ==
    [][\A d \in Dirs, c \in Nodes :
          Did("remove", d, c) =>
              /\ \A e \in Dirs \ {d} : children'[e] = children[e]
              /\ IF c \in ChildSet(children, d)
                 THEN /\ children'[d] =
                            Without(children[d], FirstAt(children[d], c))
                      /\ last'.ret = None
                 ELSE /\ children'[d] = children[d]
                      /\ last'.ret \in {None, "ValueError"}]_vars

\* A remove has taken the first of two occurrences out from before another
\* child.
C4_Witness ==
    /\ last.op = "remove"
    /\ last.ret = None
    /\ last.self \in Dirs
    /\ Len(children[last.self]) = 2
    /\ children[last.self][1] /= last.arg
    /\ children[last.self][2] = last.arg

\* C5: Directory.add(c) appends c at the end of the child sequence: the
\* count grows by one, c is last, every earlier child keeps its position, a
\* node already present is accepted (no error) and occurs once more, and
\* the child sequence of every other directory is unchanged.
C5_AddAppends ==
    [][\A d \in Dirs, c \in Nodes :
          Did("add", d, c) =>
              /\ Len(children'[d]) = Len(children[d]) + 1
              /\ children'[d][Len(children'[d])] = c
              /\ \A i \in 1..Len(children[d]) : children'[d][i] = children[d][i]
              /\ Occurrences(children', d, c) = Occurrences(children, d, c) + 1
              /\ \A e \in Dirs \ {d} : children'[e] = children[e]
              /\ last'.ret = None]_vars

\* An add has put a second occurrence of a node behind another child.
C5_Witness ==
    /\ last.op = "add"
    /\ last.self \in Dirs
    /\ Len(children[last.self]) = 3
    /\ children[last.self][1] = last.arg
    /\ children[last.self][2] /= last.arg
    /\ children[last.self][3] = last.arg

\* C7: on a File, add and remove do nothing and raise no error: after any
\* calls the File has no child sequence, get_child returns None for every
\* index, no directory's children have changed, names and sizes are those
\* the nodes were created with, and get_size_mb() is the File's size.
C7_FileOpsAreNoOps ==
    /\ [](/\ DOMAIN children = Dirs
          /\ \A f \in Files :
                /\ get_size_mb(f) = Ok(size_mb[f])
                /\ \A i \in Indices : get_child(f, i) = None)
    /\ [][/\ name' = name
          /\ size_mb' = size_mb
          /\ \A f \in Files, c \in Nodes :
                (Did("add", f, c) \/ Did("remove", f, c)) =>
                    /\ children' = children
                    /\ last'.ret = None]_vars

\* A File was the target of add after a directory had received children.
C7_Witness ==
    /\ last.op = "add"
    /\ last.self \in Files
    /\ last.arg \in Files
    /\ \E d \in Dirs : Len(children[d]) >= 2
    /\ last.arg \in ChildSet(children, "media_root")

\* C8: display(indent) of a Directory is its line "+ [name] (Total: <size>
\* MB)" at level indent followed by each child's display at level indent + 1
\* in child order, and of a File the line "- name (<size> MB)": the output
\* (of a structure without a cycle, for indent >= 0) has one line per node
\* occurrence in depth-first pre-order, every child's line is exactly one
\* level deeper than the line of the Directory that holds it, and the
\* deepest level is indent plus the depth of the tree.
C8_Display ==
    (pc = "done" /\ last.op = "display" /\ Acyclic(children, last.self)) =>
        /\ result.ok
        /\ LET lines == SplitLines(result.val)
               order == PreOrder(children, last.self, last.arg,
                                 Cardinality(Nodes) + 1)
           IN  /\ Len(lines) = Len(order)
               /\ \A j \in 1..Len(lines) :
                     lines[j] = LineOf(order[j].node, order[j].level)
               /\ Len(lines) = 1 + ChildOccurrences(children, last.self)
               /\ Level(lines[1]) = last.arg
               /\ \A j \in 2..Len(lines) :
                     \E i \in 1..(j - 1) :
                         /\ Level(lines[i]) + 1 = Level(lines[j])
                         /\ lines[i][Level(lines[i]) + 1] = "+ ["
                         /\ order[j].node \in ChildSet(children, order[i].node)
                         /\ \A m \in (i + 1)..(j - 1) :
                               Level(lines[m]) >= Level(lines[j])
               /\ Max({Level(lines[j]) : j \in 1..Len(lines)}) =
                     last.arg + Depth(children, last.self)

\* display(MaxIndent) has returned on a tree three directories deep with a file.
C8_Witness ==
    /\ pc = "done"
    /\ last.op = "display"
    /\ last.arg = MaxIndent
    /\ result.ok
    /\ IsTree(children, last.self)
    /\ Depth(children, last.self) = 3
    /\ \E f \in Files : f \in Descendants(children, last.self)

\* C10: get_size_mb and display are depth-first pre-order traversals without
\* cycle detection.  On every structure built by add calls in which no
\* Directory is below itself they return, having entered every child
\* occurrence exactly once, in pre-order; add never rejects a component (not
\* even the Directory itself), and on a structure with a cycle below the
\* root the traversal does not return but ends in RecursionError.
C10_Traversal ==
    /\ [](pc = "done" =>
            IF Acyclic(children, last.self)
            THEN /\ result.ok
                 /\ Len(visited) = 1 + ChildOccurrences(children, last.self)
                 /\ LET order == PreOrder(children, last.self, 0,
                                          Cardinality(Nodes) + 1)
                    IN  visited = [i \in 1..Len(order) |-> order[i].node]
            ELSE result = Raised("RecursionError"))
    /\ [](pc = "idle" =>
            \A d \in Dirs, c \in Nodes : ENABLED Directory_add(d, c))
    /\ (pc = "running" /\ Acyclic(children, last.self))
            ~> (pc = "done" /\ result.ok)

\* get_size_mb has returned on a structure where a directory holds the
\* same file twice, two levels down.
C10_Witness ==
    /\ pc = "done"
    /\ last.op = "get_size_mb"
    /\ result.ok
    /\ Len(visited) = 4
    /\ \E d \in Dirs, f \in Files :
          /\ d \in ChildSet(children, last.self)
          /\ Occurrences(children, d, f) = 2

\* C9: after any sequence of strategy assignments, execute_strategy(a, b)
\* returns what the most recently assigned strategy gives on (a, b) (add:
\* a + b, subtract: a - b, multiply: a * b) and leaves the assigned strategy
\* in place; with no strategy assigned it returns 0 and raises nothing.  The
\* Context of functional.py, always constructed with a function, likewise
\* applies the function assigned last.
C9_MostRecentStrategy ==
    /\ ctx_strategy = assigned.ctx
    /\ fn_strategy = assigned.fn
    /\ last.op = "execute_strategy" =>
          LET a == last.arg[1]
              b == last.arg[2]
          IN  last.ret =
                CASE assigned.ctx = None -> Ok(0)
                  [] assigned.ctx = "ConcreteStrategyAdd" -> Ok(a + b)
                  [] assigned.ctx = "ConcreteStrategySubtract" -> Ok(a - b)
                  [] assigned.ctx = "ConcreteStrategyMultiply" -> Ok(a * b)
    /\ last.op = "execute" =>
          LET a == last.arg[1]
              b == last.arg[2]
          IN  last.ret =
                CASE assigned.fn = "add" -> Ok(a + b)
                  [] assigned.fn = "subtract" -> Ok(a - b)
                  [] assigned.fn = "multiply" -> Ok(a * b)

\* execute_strategy has run with the subtract strategy on arguments that
\* tell the three strategies apart.
C9_Witness ==
    /\ last.op = "execute_strategy"
    /\ assigned.ctx = "ConcreteStrategySubtract"
    /\ last.arg = <<1, 2>>
    /\ last.ret = Ok(0 - 1)

====
